---- MODULE Spec2Model ----
(***************************************************************************)
(* Model of the web-service project template                               *)
(* (patterns/rust/project-templates/web-service): configuration loading,   *)
(* the AppError taxonomy and its HTTP mapping, the users handlers and the  *)
(* response envelopes.                                                     *)
(*                                                                         *)
(* Text.  A String is a sequence of fragments.  Text that the program      *)
(* inspects character by character (names, emails, PORT values, the        *)
(* string form of a Uuid) has one fragment per character; a string literal *)
(* of the source is a single fragment.                                     *)
(***************************************************************************)
EXTENDS Integers, Sequences, FiniteSets, TLC

VARIABLES
    pc,         \* position of main: "boot", "serving" or "failed"
    env,        \* the process environment read by AppConfig::from_env
    cfg,        \* result of AppConfig::from_env, NoValue before it ran
    req,        \* the operation handled last and its inputs
    res,        \* the Result the operation returned
    resp,       \* the HTTP response derived from res
    logged,     \* lines sent to the server-side log by the last operation
    lastId,     \* history: id of the last User a create_user returned
    prevErr,    \* history: the AppError converted before the current one
    prevResp,   \* history: the response that prevErr was mapped to
    paginated   \* the last PaginatedResponse constructed

vars == <<pc, env, cfg, req, res, resp, logged, lastId, prevErr, prevResp, paginated>>

----------------------------------------------------------------------------
(* Bounds of the model                                                     *)

MaxLen == 2         \* longest name / email of a CreateUserRequest
MaxNibble == 1      \* largest value of a random nibble of a Uuid
MaxDetail == 1      \* longest detail string of an AppError built directly
MaxPortLen == 2     \* longest PORT value enumerated exhaustively
MaxData == 2        \* most items in the data of a PaginatedResponse
MaxCount == 2       \* largest total / page / per_page

----------------------------------------------------------------------------
(* Generic values                                                          *)

NoValue == [tag |-> "None"]

Ok(v) == [tag |-> "Ok", val |-> v]

Err(e) == [tag |-> "Err", err |-> e]

RECURSIVE StringsOver(_, _)
StringsOver(chars, n) ==
    IF n = 0 THEN {<<>>}
    ELSE LET shorter == StringsOver(chars, n - 1)
         IN  shorter \cup {Append(s, c) : s \in {t \in shorter : Len(t) = n - 1}, c \in chars}

----------------------------------------------------------------------------
(* config.rs                                                               *)

U16_MAX == 65535

EnvKeys == {"HOST", "PORT", "DATABASE_URL", "RUST_LOG"}

VarNotPresent == [tag |-> "NotPresent"]

VarNotUnicode == [tag |-> "NotUnicode"]

VarSet(s) == [tag |-> "Set", val |-> s]

\* std::env::var: Ok(value) when the variable is set to valid unicode,
\* Err(VarError) when it is absent or not unicode.
env_var(e, key) ==
    IF e[key].tag = "Set" THEN Ok(e[key].val) ELSE Err(e[key].tag)

unwrap_or_else(r, default) == IF r.tag = "Ok" THEN r.val ELSE default

DecimalDigits == <<"0", "1", "2", "3", "4", "5", "6", "7", "8", "9">>

IsDigit(c) == \E i \in 1..Len(DecimalDigits) : DecimalDigits[i] = c

to_digit(c) == (CHOOSE i \in 1..Len(DecimalDigits) : DecimalDigits[i] = c) - 1

\* The digit loop of str::parse::<u16>: acc is the value so far.
RECURSIVE parse_digits(_, _)
parse_digits(s, acc) ==
    IF s = <<>> THEN Ok(acc)
    ELSE IF ~IsDigit(Head(s)) THEN Err("InvalidDigit")
    ELSE IF acc * 10 > U16_MAX THEN Err("PosOverflow")
    ELSE IF acc * 10 + to_digit(Head(s)) > U16_MAX THEN Err("PosOverflow")
    ELSE parse_digits(Tail(s), acc * 10 + to_digit(Head(s)))

\* str::parse::<u16>: no trimming, an optional leading '+', at least one digit.
parse_u16(s) ==
    IF s = <<>> THEN Err("Empty")
    ELSE IF s = <<"+">> \/ s = <<"-">> THEN Err("InvalidDigit")
    ELSE IF Head(s) = "+" THEN parse_digits(Tail(s), 0)
    ELSE parse_digits(s, 0)

\* Display of ParseIntError.
ParseIntErrorText(kind) ==
    CASE kind = "Empty" -> "cannot parse integer from empty string"
      [] kind = "InvalidDigit" -> "invalid digit found in string"
      [] kind = "PosOverflow" -> "number too large to fit in target type"

DEFAULT_HOST == <<"0.0.0.0">>

DEFAULT_PORT == <<"8", "0", "8", "0">>

DEFAULT_LOG_LEVEL == <<"info">>

DATABASE_URL_MISSING == <<"DATABASE_URL must be set">>

InvalidPort(kind) == <<"Invalid PORT: ", ParseIntErrorText(kind)>>

\* A plausible slip: DATABASE_URL is required before PORT is parsed.
from_env_database_first(e) ==
    LET port == parse_u16(unwrap_or_else(env_var(e, "PORT"), DEFAULT_PORT))
        database_url == env_var(e, "DATABASE_URL")
    IN  IF database_url.tag = "Err" THEN Err(DATABASE_URL_MISSING)
        ELSE IF port.tag = "Err" THEN Err(InvalidPort(port.err))
        ELSE Ok([host |-> unwrap_or_else(env_var(e, "HOST"), DEFAULT_HOST),
                 port |-> port.val,
                 database_url |-> database_url.val,
                 log_level |-> unwrap_or_else(env_var(e, "RUST_LOG"), DEFAULT_LOG_LEVEL)])

\* AppConfig::from_env: the fields are evaluated in the order written, and
\* each `?` returns the first error met.
from_env(e) ==
    LET port == parse_u16(unwrap_or_else(env_var(e, "PORT"), DEFAULT_PORT))
        database_url == env_var(e, "DATABASE_URL")
    IN  IF port.tag = "Err" THEN Err(InvalidPort(port.err))
        ELSE IF database_url.tag = "Err" THEN Err(DATABASE_URL_MISSING)
        ELSE Ok([host |-> unwrap_or_else(env_var(e, "HOST"), DEFAULT_HOST),
                 port |-> port.val,
                 database_url |-> database_url.val,
                 log_level |-> unwrap_or_else(env_var(e, "RUST_LOG"), DEFAULT_LOG_LEVEL)])

PortChars == {"8", "+", "x"}

PortTexts ==
    StringsOver(PortChars, MaxPortLen)
        \cup {DEFAULT_PORT, <<"6", "5", "5", "3", "5">>, <<"6", "5", "5", "3", "6">>,
              <<"+", "0">>, <<"8", "8", "8", "8", "8", "x">>}

PortValues == {VarNotPresent, VarNotUnicode} \cup {VarSet(s) : s \in PortTexts}

HostValues == {VarNotPresent, VarSet(<<"localhost">>)}

DatabaseUrlValues == {VarNotPresent, VarNotUnicode, VarSet(<<>>), VarSet(<<"postgres://db">>)}

LogLevelValues == {VarNotPresent, VarSet(<<"debug">>)}

Environments ==
    {[k \in EnvKeys |-> CASE k = "HOST" -> h
                          [] k = "PORT" -> p
                          [] k = "DATABASE_URL" -> d
                          [] k = "RUST_LOG" -> l] :
        h \in HostValues, p \in PortValues, d \in DatabaseUrlValues, l \in LogLevelValues}

\* The environment of a process that starts serving.
ServingEnv ==
    [k \in EnvKeys |-> IF k = "DATABASE_URL" THEN VarSet(<<"postgres://db">>) ELSE VarNotPresent]

----------------------------------------------------------------------------
(* errors.rs                                                               *)

NOT_FOUND == 404

UNPROCESSABLE_ENTITY == 422

INTERNAL_SERVER_ERROR == 500

NotFound(msg) == [kind |-> "NotFound", msg |-> msg]

Validation(msg) == [kind |-> "Validation", msg |-> msg]

Database(msg) == [kind |-> "Database", msg |-> msg]

Internal == [kind |-> "Internal"]

\* Display of AppError, from the #[error(...)] attributes.
to_string(err) ==
    CASE err.kind = "NotFound" -> <<"Resource not found: ">> \o err.msg
      [] err.kind = "Validation" -> <<"Validation error: ">> \o err.msg
      [] err.kind = "Database" -> <<"Database error: ">> \o err.msg
      [] err.kind = "Internal" -> <<"Internal server error">>

\* (status, Json(json!({ "error": message }))).into_response()
ErrorResponse(status, message) == [status |-> status, body |-> [error |-> message]]

\* A plausible slip: every kind answers with its Display text.
into_response_display(err) ==
    CASE err.kind = "NotFound" -> ErrorResponse(NOT_FOUND, to_string(err))
      [] err.kind = "Validation" -> ErrorResponse(UNPROCESSABLE_ENTITY, to_string(err))
      [] err.kind = "Database" -> ErrorResponse(INTERNAL_SERVER_ERROR, to_string(err))
      [] err.kind = "Internal" -> ErrorResponse(INTERNAL_SERVER_ERROR, to_string(err))

\* A plausible slip: the Database detail is echoed like the other details.
into_response_leaky(err) ==
    CASE err.kind = "NotFound" -> ErrorResponse(NOT_FOUND, err.msg)
      [] err.kind = "Validation" -> ErrorResponse(UNPROCESSABLE_ENTITY, err.msg)
      [] err.kind = "Database" -> ErrorResponse(INTERNAL_SERVER_ERROR, err.msg)
      [] err.kind = "Internal" -> ErrorResponse(INTERNAL_SERVER_ERROR, <<"Internal server error">>)

\* AppError::into_response: the response sent to the client.
into_response(err) ==
    CASE err.kind = "NotFound" -> ErrorResponse(NOT_FOUND, err.msg)
      [] err.kind = "Validation" -> ErrorResponse(UNPROCESSABLE_ENTITY, err.msg)
      [] err.kind = "Database" -> ErrorResponse(INTERNAL_SERVER_ERROR, <<"Database error">>)
      [] err.kind = "Internal" -> ErrorResponse(INTERNAL_SERVER_ERROR, <<"Internal server error">>)

\* AppError::into_response: the lines it sends to the log (tracing::error!).
into_response_log(err) ==
    IF err.kind = "Database" THEN <<(<<"Database error: ">> \o err.msg)>> ELSE <<>>

----------------------------------------------------------------------------
(* handlers/users.rs                                                       *)

OK == 200

CREATED == 201

UuidNibbles == 32

HexDigits == <<"0", "1", "2", "3", "4", "5", "6", "7",
               "8", "9", "a", "b", "c", "d", "e", "f">>

\* Display of Uuid: lower-case hex in groups of 8-4-4-4-12 nibbles.
RECURSIVE hyphenated(_, _)
hyphenated(u, i) ==
    IF i > Len(u) THEN <<>>
    ELSE (IF i \in {9, 13, 17, 21} THEN <<"-">> ELSE <<>>)
            \o <<HexDigits[u[i] + 1]>> \o hyphenated(u, i + 1)

UuidText(u) == hyphenated(u, 1)

NilUuid == [i \in 1..UuidNibbles |-> 0]

MaxUuid == [i \in 1..UuidNibbles |-> 15]

VariantNibbles == {8, 11}

\* The values Uuid::new_v4() can return: version nibble 4, variant bits 10,
\* every other nibble random (here: the last one, the others zero).
V4Uuids ==
    {[i \in 1..UuidNibbles |-> CASE i = 13 -> 4
                                 [] i = 17 -> v
                                 [] i = UuidNibbles -> r
                                 [] OTHER -> 0] :
        v \in VariantNibbles, r \in 0..MaxNibble}

\* Path(id): any Uuid the path parameter parses to.
PathUuids ==
    V4Uuids \cup {MaxUuid} \cup {[NilUuid EXCEPT ![UuidNibbles] = r] : r \in 0..MaxNibble}

User(id, name, email) == [id |-> id, name |-> name, email |-> email]

\* str::contains(char)
contains(s, c) == \E i \in 1..Len(s) : s[i] = c

\* A plausible slip: list_users reports the user created last.
list_users_remembering ==
    Ok([status |-> OK,
        json |-> IF lastId.tag = "Some" THEN <<User(lastId.val, <<>>, <<>>)>> ELSE <<>>])

\* list_users: Ok(Json(vec![]))
list_users == Ok([status |-> OK, json |-> <<>>])

\* A plausible slip: the message names the nil Uuid rather than the id asked for.
get_user_nil(id) ==
    Err(NotFound(<<"User ">> \o UuidText(NilUuid) \o <<" not found">>))

\* get_user: Err(AppError::NotFound(format!("User {} not found", id)))
get_user(id) ==
    Err(NotFound(<<"User ">> \o UuidText(id) \o <<" not found">>))

\* A plausible slip: the email is validated before the name.
create_user_email_first(payload, id) ==
    IF ~contains(payload.email, "@")
        THEN Err(Validation(<<"invalid email address">>))
    ELSE IF Len(payload.name) = 0
        THEN Err(Validation(<<"name cannot be empty">>))
    ELSE Ok([status |-> CREATED, json |-> User(id, payload.name, payload.email)])

\* A plausible slip: the email check looks for '@' only at the start.
create_user_at_first(payload, id) ==
    IF Len(payload.name) = 0
        THEN Err(Validation(<<"name cannot be empty">>))
    ELSE IF ~(payload.email # <<>> /\ Head(payload.email) = "@")
        THEN Err(Validation(<<"invalid email address">>))
    ELSE Ok([status |-> CREATED, json |-> User(id, payload.name, payload.email)])

\* A plausible slip: the email check is missing.
create_user_no_email_check(payload, id) ==
    IF Len(payload.name) = 0
        THEN Err(Validation(<<"name cannot be empty">>))
    ELSE Ok([status |-> CREATED, json |-> User(id, payload.name, payload.email)])

\* create_user; id is the value Uuid::new_v4() returns in this call.
create_user(payload, id) ==
    IF Len(payload.name) = 0
        THEN Err(Validation(<<"name cannot be empty">>))
    ELSE IF ~contains(payload.email, "@")
        THEN Err(Validation(<<"invalid email address">>))
    ELSE Ok([status |-> CREATED, json |-> User(id, payload.name, payload.email)])

\* IntoResponse for Result<_, AppError>: the Ok side answers with its status
\* and JSON body, the Err side with AppError::into_response.
result_into_response(r) ==
    IF r.tag = "Ok" THEN [status |-> r.val.status, body |-> r.val.json]
    ELSE into_response(r.err)

result_log(r) == IF r.tag = "Ok" THEN <<>> ELSE into_response_log(r.err)

TextChars == {"a", "@"}

Texts == StringsOver(TextChars, MaxLen)

Payloads == [name : Texts, email : Texts]

----------------------------------------------------------------------------
(* models/mod.rs                                                           *)

\* A plausible slip: page and per_page are stored swapped.
PaginatedResponse_new_swapped(data, total, page, per_page) ==
    [data |-> data, total |-> total, page |-> per_page, per_page |-> page]

\* PaginatedResponse::new: Self { data, total, page, per_page }
PaginatedResponse_new(data, total, page, per_page) ==
    [data |-> data, total |-> total, page |-> page, per_page |-> per_page]

Items == {"x", "y"}

DataValues == StringsOver(Items, MaxData)

----------------------------------------------------------------------------
(* Initial states                                                          *)

Some(v) == [tag |-> "Some", val |-> v]

Idle ==
    /\ req = NoValue
    /\ res = NoValue
    /\ resp = NoValue
    /\ logged = <<>>
    /\ lastId = NoValue
    /\ prevErr = NoValue
    /\ prevResp = NoValue
    /\ paginated = NoValue

\* main before AppConfig::from_env, in any environment.
InitConfig ==
    /\ pc = "boot"
    /\ env \in Environments
    /\ cfg = NoValue
    /\ Idle

\* main once the router serves: from_env succeeded.
Init ==
    /\ pc = "serving"
    /\ env = ServingEnv
    /\ cfg = from_env(ServingEnv)
    /\ Idle

----------------------------------------------------------------------------
(* Actions                                                                 *)

\* main: AppConfig::from_env().expect(...) ends the process on Err.
Startup ==
    /\ pc = "boot"
    /\ cfg' = from_env(env)
    /\ pc' = IF from_env(env).tag = "Ok" THEN "serving" ELSE "failed"
    /\ UNCHANGED <<env, req, res, resp, logged, lastId, prevErr, prevResp, paginated>>

\* GET /api/v1/users
ListUsers ==
    /\ pc = "serving"
    /\ req' = [op |-> "list_users"]
    /\ res' = list_users
    /\ resp' = result_into_response(list_users)
    /\ logged' = result_log(list_users)
    /\ UNCHANGED <<pc, env, cfg, lastId, prevErr, prevResp, paginated>>

\* GET /api/v1/users/:id
GetUser(id) ==
    /\ pc = "serving"
    /\ req' = [op |-> "get_user", id |-> id]
    /\ res' = get_user(id)
    /\ resp' = result_into_response(get_user(id))
    /\ logged' = result_log(get_user(id))
    /\ UNCHANGED <<pc, env, cfg, lastId, prevErr, prevResp, paginated>>

\* POST /api/v1/users; fresh is what Uuid::new_v4() yields if it is called.
CreateUser(payload, fresh) ==
    /\ pc = "serving"
    /\ req' = [op |-> "create_user", payload |-> payload]
    /\ res' = create_user(payload, fresh)
    /\ resp' = result_into_response(create_user(payload, fresh))
    /\ logged' = result_log(create_user(payload, fresh))
    /\ lastId' = IF create_user(payload, fresh).tag = "Ok"
                 THEN Some(create_user(payload, fresh).val.json.id)
                 ELSE lastId
    /\ UNCHANGED <<pc, env, cfg, prevErr, prevResp, paginated>>

\* AppError::into_response on an error of any kind.
IntoResponse(err) ==
    /\ pc = "serving"
    /\ req' = [op |-> "into_response", err |-> err]
    /\ res' = Err(err)
    /\ resp' = into_response(err)
    /\ logged' = into_response_log(err)
    /\ prevErr' = IF res.tag = "Err" THEN Some(res.err) ELSE NoValue
    /\ prevResp' = IF res.tag = "Err" THEN Some(resp) ELSE NoValue
    /\ UNCHANGED <<pc, env, cfg, lastId, paginated>>

\* PaginatedResponse::new(data, total, page, per_page)
NewPaginated(data, total, page, per_page) ==
    /\ pc = "serving"
    /\ req' = [op |-> "PaginatedResponse::new", data |-> data, total |-> total,
               page |-> page, per_page |-> per_page]
    /\ paginated' = Some(PaginatedResponse_new(data, total, page, per_page))
    /\ UNCHANGED <<pc, env, cfg, res, resp, logged, lastId, prevErr, prevResp>>

DetailChars == {"p", "q"}

Details == StringsOver(DetailChars, MaxDetail)

AppErrors ==
    {NotFound(d) : d \in Details} \cup {Validation(d) : d \in Details}
        \cup {Database(d) : d \in Details} \cup {Internal}

----------------------------------------------------------------------------
(* Specifications                                                          *)

\* The users handlers, request after request.
Next ==
    \/ ListUsers
    \/ \E id \in PathUuids : GetUser(id)
    \/ \E payload \in Payloads, fresh \in V4Uuids : CreateUser(payload, fresh)

Spec == Init /\ [][Next]_vars

\* Configuration loading at start-up.
NextConfig == Startup

SpecConfig == InitConfig /\ [][NextConfig]_vars

\* The error mapping, conversion after conversion.
NextErrors == \E err \in AppErrors : IntoResponse(err)

SpecErrors == Init /\ [][NextErrors]_vars

\* The pagination envelope.
NextModels ==
    \E data \in DataValues, total \in 0..MaxCount, page \in 0..MaxCount, per_page \in 0..MaxCount :
        NewPaginated(data, total, page, per_page)

SpecModels == Init /\ [][NextModels]_vars

----------------------------------------------------------------------------
(* Properties                                                              *)

\* The operation handled last is op.
Handled(op) == "op" \in DOMAIN req /\ req.op = op

\* needle occurs in hay as a contiguous run.
IsInfix(needle, hay) ==
    \E i \in 0..(Len(hay) - Len(needle)) : SubSeq(hay, i + 1, i + Len(needle)) = needle

NilUuidText ==
    <<"0", "0", "0", "0", "0", "0", "0", "0", "-", "0", "0", "0", "0", "-",
      "0", "0", "0", "0", "-", "0", "0", "0", "0", "-",
      "0", "0", "0", "0", "0", "0", "0", "0", "0", "0", "0", "0">>

\* C1: a create_user request with an empty name is answered with
\* Validation("name cannot be empty"), whatever its email is.
C1_EmptyNameRejected ==
    (Handled("create_user") /\ req.payload.name = <<>>)
        => res = [tag |-> "Err",
                  err |-> [kind |-> "Validation", msg |-> <<"name cannot be empty">>]]

\* An empty name together with an email without '@' has been handled.
C1_Witness ==
    /\ Handled("create_user")
    /\ req.payload.name = <<>>
    /\ req.payload.email # <<>>
    /\ \A i \in 1..Len(req.payload.email) : req.payload.email[i] # "@"
    /\ res.tag = "Err"

\* C2: a create_user request with a non-empty name and an email without '@'
\* is answered with Validation("invalid email address"), and no User is built.
C2_BadEmailRejected ==
    (/\ Handled("create_user")
     /\ req.payload.name # <<>>
     /\ \A i \in 1..Len(req.payload.email) : req.payload.email[i] # "@")
        => /\ res = [tag |-> "Err",
                     err |-> [kind |-> "Validation", msg |-> <<"invalid email address">>]]
           /\ resp = [status |-> 422, body |-> [error |-> <<"invalid email address">>]]

\* A named request whose non-empty email lacks '@' has been rejected.
C2_Witness ==
    /\ Handled("create_user")
    /\ req.payload.name # <<>>
    /\ req.payload.email # <<>>
    /\ \A i \in 1..Len(req.payload.email) : req.payload.email[i] # "@"
    /\ res.tag = "Err"

\* C3: a create_user request with a non-empty name and an email containing
\* '@' succeeds with 201 Created and a User carrying the request's name and
\* email unchanged; it never fails.
C3_ValidRequestCreated ==
    (/\ Handled("create_user")
     /\ req.payload.name # <<>>
     /\ \E i \in 1..Len(req.payload.email) : req.payload.email[i] = "@")
        => /\ res.tag = "Ok"
           /\ res.val.status = 201
           /\ res.val.json.name = req.payload.name
           /\ res.val.json.email = req.payload.email
           /\ resp = [status |-> 201, body |-> res.val.json]

\* A request whose email has '@' after its first character has succeeded.
C3_Witness ==
    /\ Handled("create_user")
    /\ Len(req.payload.email) > 1
    /\ req.payload.email[1] # "@"
    /\ req.payload.email[2] = "@"
    /\ res.tag = "Ok"
    /\ resp.status = 201

\* C4: into_response maps every error kind: NotFound(d) to 404 {error: d},
\* Validation(d) to 422 {error: d}, Database(d) to 500 {error: "Database
\* error"}, Internal to 500 {error: "Internal server error"}.
C4_ErrorMapping ==
    Handled("into_response")
        => /\ req.err.kind \in {"NotFound", "Validation", "Database", "Internal"}
           /\ req.err.kind = "NotFound"
                => resp = [status |-> 404, body |-> [error |-> req.err.msg]]
           /\ req.err.kind = "Validation"
                => resp = [status |-> 422, body |-> [error |-> req.err.msg]]
           /\ req.err.kind = "Database"
                => resp = [status |-> 500, body |-> [error |-> <<"Database error">>]]
           /\ req.err.kind = "Internal"
                => resp = [status |-> 500, body |-> [error |-> <<"Internal server error">>]]

\* A Validation error with a non-empty detail has been converted, after
\* errors of the three other kinds were.
C4_Witness ==
    /\ Handled("into_response")
    /\ req.err.kind = "Validation"
    /\ req.err.msg # <<>>
    /\ resp.status = 422
    /\ prevErr.tag = "Some"
    /\ prevErr.val.kind = "NotFound"

\* C5: two Database errors with different details get the same response,
\* 500 {error: "Database error"}; the detail goes to the log only.
C5_DatabaseDetailHidden ==
    (/\ Handled("into_response")
     /\ req.err.kind = "Database"
     /\ prevErr.tag = "Some"
     /\ prevErr.val.kind = "Database"
     /\ prevErr.val.msg # req.err.msg)
        => /\ prevResp.val = resp
           /\ resp = [status |-> 500, body |-> [error |-> <<"Database error">>]]
           /\ logged = <<(<<"Database error: ">> \o req.err.msg)>>

\* Two Database errors with different, non-empty details have been converted
\* one after the other.
C5_Witness ==
    /\ Handled("into_response")
    /\ req.err.kind = "Database"
    /\ prevErr.tag = "Some"
    /\ prevErr.val.kind = "Database"
    /\ prevErr.val.msg # req.err.msg
    /\ prevErr.val.msg # <<>>
    /\ req.err.msg # <<>>

\* C6: get_user(id) returns NotFound("User {id} not found") for every id,
\* also for the id of a User just created; the detail contains the string
\* form of id and the response is a 404.
C6_GetUserNotFound ==
    Handled("get_user")
        => /\ res.tag = "Err"
           /\ res.err.kind = "NotFound"
           /\ res.err.msg = <<"User ">> \o UuidText(req.id) \o <<" not found">>
           /\ Len(UuidText(req.id)) = 36
           /\ IsInfix(UuidText(req.id), res.err.msg)
           /\ req.id = NilUuid => res.err.msg = <<"User ">> \o NilUuidText \o <<" not found">>
           /\ resp = [status |-> 404, body |-> [error |-> res.err.msg]]

\* get_user has been asked for the id that the create_user before it returned.
C6_Witness ==
    /\ Handled("get_user")
    /\ lastId = [tag |-> "Some", val |-> req.id]
    /\ resp.status = 404

\* C7: list_users succeeds with the empty list in every reachable state.
C7_ListUsersEmpty ==
    Handled("list_users")
        => /\ res.tag = "Ok"
           /\ res.val.json = <<>>
           /\ resp = [status |-> 200, body |-> <<>>]

\* list_users has been handled after a create_user succeeded.
C7_Witness ==
    /\ Handled("list_users")
    /\ lastId.tag = "Some"
    /\ res.tag = "Ok"

\* PORT is absent, not unicode, or parses as a u16.
PortUsable == env["PORT"].tag = "Set" => parse_u16(env["PORT"].val).tag = "Ok"

\* C8 as stated: whenever DATABASE_URL is absent, from_env fails with
\* "DATABASE_URL must be set".
C8_Original ==
    (pc # "boot" /\ env["DATABASE_URL"].tag = "NotPresent")
        => cfg = [tag |-> "Err", err |-> <<"DATABASE_URL must be set">>]

\* C8 amended: whenever DATABASE_URL is absent, from_env fails; the error is
\* "DATABASE_URL must be set" when PORT is absent or parses as a u16, and
\* "Invalid PORT: ..." when PORT is set to text that does not parse, since
\* PORT is parsed first.
C8_MissingDatabaseUrl ==
    (pc # "boot" /\ env["DATABASE_URL"].tag = "NotPresent")
        => /\ pc = "failed"
           /\ cfg.tag = "Err"
           /\ PortUsable => cfg.err = <<"DATABASE_URL must be set">>
           /\ ~PortUsable => (Len(cfg.err) = 2 /\ cfg.err[1] = "Invalid PORT: ")

\* Start-up has failed on an unparsable PORT with DATABASE_URL absent.
C8_Witness ==
    /\ pc = "failed"
    /\ env["DATABASE_URL"].tag = "NotPresent"
    /\ env["PORT"].tag = "Set"
    /\ cfg.tag = "Err"
    /\ cfg.err[1] = "Invalid PORT: "

\* data.len() <= per_page and total >= data.len()
PageInvariant(p) == Len(p.data) <= p.per_page /\ p.total >= Len(p.data)

\* C9 as stated: every PaginatedResponse built by PaginatedResponse::new
\* has at most per_page items in data, and total at least that number.
C9_Original == paginated.tag = "Some" => PageInvariant(paginated.val)

\* C9 amended: PaginatedResponse::new stores its four arguments as given
\* and checks nothing, so the value it builds satisfies
\* data.len() <= per_page and total >= data.len() exactly when its
\* arguments do.
C9_NewStoresArguments ==
    Handled("PaginatedResponse::new")
        => /\ paginated.tag = "Some"
           /\ paginated.val.data = req.data
           /\ paginated.val.total = req.total
           /\ paginated.val.page = req.page
           /\ paginated.val.per_page = req.per_page
           /\ PageInvariant(paginated.val)
                <=> (Len(req.data) <= req.per_page /\ req.total >= Len(req.data))

\* A PaginatedResponse with more items than per_page, and a total below the
\* number of items, has been built.
C9_Witness ==
    /\ Handled("PaginatedResponse::new")
    /\ paginated.tag = "Some"
    /\ Len(paginated.val.data) > paginated.val.per_page
    /\ paginated.val.total < Len(paginated.val.data)
    /\ paginated.val.page # paginated.val.per_page

====
